---- MODULE Spec2Model ----
(***************************************************************************)
(* Model of ai_news_roundup.py: the topic loop of main, build_ppt,         *)
(* export_slides_to_images, _image_with_audio_clip, _write_clip and        *)
(* build_video, run one or more times on the same output directory.        *)
(*                                                                         *)
(* Durations are integer milliseconds.  A file name is a pair              *)
(* <<pattern, digits>>: the fixed text of the name and the digits produced *)
(* by the ":02" format (empty for the unnumbered files).  A directory is a *)
(* function from the names it holds to the number of the run that wrote    *)
(* the file last.                                                          *)
(***************************************************************************)
EXTENDS Integers, Sequences, FiniteSets

VARIABLES
    run,            \* number of the current run of main on the output directory
    pc,             \* position of the run in main / build_video
    err,            \* the exception that ended the run, "none" while there is none
    topicPos,       \* position in TOPICS.items() of the topic the loop is at
    topic_index,    \* main's topic_index
    all_segments,   \* main's all_segments
    skipped,        \* positions in TOPICS of the topics the loop skipped
    deck,           \* topics of the topic slides build_ppt saved in PPTX_FILE
    total,          \* pres.Slides.Count as read by export_slides_to_images
    exp_idx,        \* idx of the export loop
    exported,       \* file name each slide was exported to, in slide order
    slides,         \* the mapping export_slides_to_images returned
    n,              \* build_video's n
    idx,            \* idx of build_video's topic loop
    rendered,       \* clip files _write_clip wrote in this run, in order
    clip_durs,      \* per written clip: its audio's duration and its own duration
    used,           \* per written clip: the slide image and audio file it was built from
    clip_paths,     \* build_video's clip_paths
    stitched,       \* the clip list handed to concatenate_videoclips
    final_dur,      \* duration of the concatenated video, 0 before concatenation
    warned,         \* the mismatch warning was logged in this run
    openHandles,    \* media handles opened while rendering and not closed
    slideDir,       \* SLIDE_IMG_DIR
    audioDir,       \* AUDIO_DIR
    clipDir,        \* CLIPS_DIR
    spoken,         \* what this run saved in each audio file it wrote
    shown,          \* what this run exported to each slide image it wrote
    finalVideo,     \* VIDEO_FILE: the run that wrote it, 0 when absent
    finalAudio,     \* FINAL_AUDIO: the run that wrote it, 0 when absent
    prev,           \* outcome of the previous run: its pc and segment count
    fade,           \* fade argument of the last _image_with_audio_clip call
    tail_pad,       \* tail_pad argument of the last _image_with_audio_clip call
    audio_fadeout,  \* duration given to afx.audio_fadeout by that call, -1 if none
    pre_roll,       \* pre_roll argument of that call
    audio_duration, \* audio.duration read by that call
    total_dur       \* total_dur computed by that call

vars == <<run, pc, err, topicPos, topic_index, all_segments, skipped, deck, total,
          exp_idx, exported, slides, n, idx, rendered, clip_durs, used, clip_paths,
          stitched, final_dur, warned, openHandles, slideDir, shown, audioDir,
          spoken, clipDir, finalVideo, finalAudio, prev, fade, tail_pad,
          audio_fadeout, pre_roll, audio_duration, total_dur>>

memVars == <<topicPos, topic_index, all_segments, skipped, deck, total, exp_idx,
             exported, slides, n, idx, rendered, clip_durs, used, clip_paths,
             stitched, final_dur, warned>>
fileVars == <<slideDir, audioDir, clipDir, finalVideo, finalAudio>>
contentVars == <<spoken, shown>>
fadeVars == <<fade, tail_pad, audio_fadeout, pre_roll, audio_duration, total_dur>>

----------------------------------------------------------------------------
(* Bounds of the model *)

\* number of runs of main on the same output directory
MaxRuns == 2
\* fade and tail_pad range over 0, 50, ..., 50 * MaxStep milliseconds
MaxStep == 10
\* an audio file lasts 1.25 s, the shortest, or MaxSeconds s and 250 ms, the longest
MaxSeconds == 30

(* Program constants *)

\* len(TOPICS)
NumTopics == 4
\* pre_roll_seconds=0.6 passed by main to build_video
PreRollSeconds == 600
\* fade_seconds=0.4 passed by main to build_video
FadeSeconds == 400
\* tail_pad=0.2, the default build_video leaves in place
TailPadDefault == 200
\* the 0.1 floor of the audio fade-out
MinFadeOut == 100

Min(a, b) == IF a < b THEN a ELSE b
Max(a, b) == IF a > b THEN a ELSE b

----------------------------------------------------------------------------
(* File names *)

RECURSIVE Digits(_)
Digits(k) == IF k < 10 THEN <<k>> ELSE Append(Digits(k \div 10), k % 10)

\* the format spec ":02": at least two digits, zero padded
Fmt02(k) == IF k < 10 THEN <<0, k>> ELSE Digits(k)

IntroSlide == <<"intro_slide.jpg", <<>>>>
OutroSlide == <<"outro_slide.jpg", <<>>>>
TopicSlide(i) == <<"topic_slide.jpg", Fmt02(i)>>
IntroAudio == <<"intro_audio.wav", <<>>>>
OutroAudio == <<"outro_audio.wav", <<>>>>
TopicAudio(k) == <<"topic_audio.wav", Fmt02(k)>>
IntroClip == <<"00_intro.mp4", <<>>>>
OutroClip == <<"99_outro.mp4", <<>>>>
TopicClip(i) == <<"01_topic.mp4", Fmt02(i)>>

EmptyDir == [f \in {} |-> 0]
WriteFile(dir, name, r) ==
    [f \in (DOMAIN dir) \cup {name} |-> IF f = name THEN r ELSE dir[f]]
RemoveFiles(dir, gone) == [f \in (DOMAIN dir) \ gone |-> dir[f]]

NoSlides == [intro |-> <<>>, topics |-> <<>>, outro |-> <<>>]

----------------------------------------------------------------------------
(* Initial state: a fresh output directory, main about to enter its loop *)

FreshRun ==
    /\ topicPos = 1
    /\ topic_index = 1
    /\ all_segments = <<>>
    /\ skipped = {}
    /\ deck = <<>>
    /\ total = 0
    /\ exp_idx = 0
    /\ exported = <<>>
    /\ slides = NoSlides
    /\ n = 0
    /\ idx = 0
    /\ rendered = <<>>
    /\ clip_durs = <<>>
    /\ used = <<>>
    /\ clip_paths = <<>>
    /\ stitched = <<>>
    /\ final_dur = 0
    /\ warned = FALSE
    /\ openHandles = {}
    /\ spoken = EmptyDir
    /\ shown = EmptyDir

Init ==
    /\ run = 1
    /\ pc = "collect"
    /\ err = "none"
    /\ FreshRun
    /\ slideDir = EmptyDir
    /\ audioDir = EmptyDir
    /\ clipDir = EmptyDir
    /\ finalVideo = 0
    /\ finalAudio = 0
    /\ prev = [pc |-> "none", segments |-> 0]
    /\ fade = 0
    /\ tail_pad = 0
    /\ audio_fadeout = -1
    /\ pre_roll = 0
    /\ audio_duration = 0
    /\ total_dur = 0

\* an exception leaves the function and main; main's finally only collects garbage
Raise(e) ==
    /\ pc' = "failed"
    /\ err' = e

----------------------------------------------------------------------------
(* main: the topic loop *)

\* search_snippets raises for one of the chosen sites: it is called outside
\* the try block, so the exception leaves main
TopicSearchRaises ==
    /\ pc = "collect"
    /\ topicPos <= NumTopics
    /\ Raise("search_snippets")
    /\ UNCHANGED <<run, memVars, openHandles, fileVars, contentVars, prev,
                   fadeVars>>

\* no site returned snippets: "Skipping topic", continue
TopicNoSummaries ==
    /\ pc = "collect"
    /\ topicPos <= NumTopics
    /\ topicPos' = topicPos + 1
    /\ skipped' = skipped \cup {topicPos}
    /\ UNCHANGED <<run, pc, err, topic_index, all_segments, deck, total, exp_idx,
                   exported, slides, n, idx, rendered, clip_durs, used, clip_paths,
                   stitched, final_dur, warned, openHandles, fileVars, contentVars,
                   prev, fadeVars>>

\* get_bullet_points, get_script, get_image_keywords or fetch_image raises
\* inside the try block: logged, continue
TopicAIFails ==
    /\ pc = "collect"
    /\ topicPos <= NumTopics
    /\ topicPos' = topicPos + 1
    /\ skipped' = skipped \cup {topicPos}
    /\ UNCHANGED <<run, pc, err, topic_index, all_segments, deck, total, exp_idx,
                   exported, slides, n, idx, rendered, clip_durs, used, clip_paths,
                   stitched, final_dur, warned, openHandles, fileVars, contentVars,
                   prev, fadeVars>>

\* the text steps succeeded (fetch_image returned a path or None) and
\* save_audio raises: it re-raises, outside any try block of main
TopicAudioRaises ==
    /\ pc = "collect"
    /\ topicPos <= NumTopics
    /\ Raise("save_audio")
    /\ UNCHANGED <<run, memVars, openHandles, fileVars, contentVars, prev,
                   fadeVars>>

\* what an audio file says and what a slide image shows
IntroContent == <<"intro">>
OutroContent == <<"outro">>
TopicContent(topic) == <<"topic", topic>>

\* the fields of a segment that main and build_video read again; bullets, script
\* and image (a PNG path or None) only fill the slide in build_ppt
Segment(topic, audio) == [topic |-> topic, audio |-> audio]

\* TopicAppended with the audio file numbered by the topic's position in TOPICS
TopicAppended_ByPosition ==
    /\ pc = "collect"
    /\ topicPos <= NumTopics
    /\ all_segments' = Append(all_segments, Segment(topicPos, TopicAudio(topicPos)))
    /\ audioDir' = WriteFile(audioDir, TopicAudio(topicPos), run)
    /\ spoken' = WriteFile(spoken, TopicAudio(topicPos), TopicContent(topicPos))
    /\ topic_index' = topic_index + 1
    /\ topicPos' = topicPos + 1
    /\ UNCHANGED <<run, pc, err, skipped, deck, total, exp_idx, exported, slides, n,
                   idx, rendered, clip_durs, used, clip_paths, stitched, final_dur,
                   warned, openHandles, slideDir, shown, clipDir, finalVideo,
                   finalAudio, prev, fadeVars>>

\* every step succeeded (fetch_image returned a path or None): the audio is
\* saved under the next topic_index and the segment appended
TopicAppended ==
    /\ pc = "collect"
    /\ topicPos <= NumTopics
    /\ all_segments' = Append(all_segments, Segment(topicPos, TopicAudio(topic_index)))
    /\ audioDir' = WriteFile(audioDir, TopicAudio(topic_index), run)
    /\ spoken' = WriteFile(spoken, TopicAudio(topic_index), TopicContent(topicPos))
    /\ topic_index' = topic_index + 1
    /\ topicPos' = topicPos + 1
    /\ UNCHANGED <<run, pc, err, skipped, deck, total, exp_idx, exported, slides, n,
                   idx, rendered, clip_durs, used, clip_paths, stitched, final_dur,
                   warned, openHandles, slideDir, shown, clipDir, finalVideo,
                   finalAudio, prev, fadeVars>>

\* after the loop: intro and outro text and audio
NarrationSaved ==
    /\ pc = "collect"
    /\ topicPos = NumTopics + 1
    /\ audioDir' = WriteFile(WriteFile(audioDir, IntroAudio, run), OutroAudio, run)
    /\ spoken' = WriteFile(WriteFile(spoken, IntroAudio, IntroContent),
                           OutroAudio, OutroContent)
    /\ pc' = "build_ppt"
    /\ UNCHANGED <<run, err, memVars, openHandles, slideDir, shown, clipDir,
                   finalVideo, finalAudio, prev, fadeVars>>

\* get_intro_text, get_outro_text or save_audio raises after the loop
NarrationRaises ==
    /\ pc = "collect"
    /\ topicPos = NumTopics + 1
    /\ Raise("narration")
    /\ UNCHANGED <<run, memVars, openHandles, fileVars, contentVars, prev,
                   fadeVars>>

SegmentTopics(segs) == [i \in 1..Len(segs) |-> segs[i].topic]

\* build_ppt: intro slide, one slide per segment in order, outro slide
build_ppt ==
    /\ pc = "build_ppt"
    /\ deck' = SegmentTopics(all_segments)
    /\ pc' = "export"
    /\ UNCHANGED <<run, err, topicPos, topic_index, all_segments, skipped, total,
                   exp_idx, exported, slides, n, idx, rendered, clip_durs, used,
                   clip_paths, stitched, final_dur, warned, openHandles, fileVars,
                   contentVars, prev, fadeVars>>

----------------------------------------------------------------------------
(* export_slides_to_images *)

\* the files the clearing patterns match: intro_slide.*, topic_*.jpg, outro_slide.*
Standardized(dir) ==
    {f \in DOMAIN dir : f[1] \in {"intro_slide.jpg", "topic_slide.jpg", "outro_slide.jpg"}}

\* the count PowerPoint can report for the file it opened
SlideCounts == 0..(NumTopics + 2)

\* old files cleared, presentation opened, total < 2: RuntimeError
ExportTooFewSlides ==
    /\ pc = "export"
    /\ slideDir' = RemoveFiles(slideDir, Standardized(slideDir))
    /\ shown' = RemoveFiles(shown, Standardized(shown))
    /\ \E t \in SlideCounts :
          /\ t < 2
          /\ total' = t
    /\ Raise("too_few_slides")
    /\ UNCHANGED <<run, topicPos, topic_index, all_segments, skipped, deck, exp_idx,
                   exported, slides, n, idx, rendered, clip_durs, used, clip_paths,
                   stitched, final_dur, warned, openHandles, audioDir, spoken,
                   clipDir, finalVideo, finalAudio, prev, fadeVars>>

\* old files cleared, presentation opened, total >= 2: the loop starts at slide 1
ExportOpen ==
    /\ pc = "export"
    /\ slideDir' = RemoveFiles(slideDir, Standardized(slideDir))
    /\ shown' = RemoveFiles(shown, Standardized(shown))
    /\ \E t \in SlideCounts :
          /\ t >= 2
          /\ total' = t
    /\ exp_idx' = 1
    /\ pc' = "export_loop"
    /\ UNCHANGED <<run, err, topicPos, topic_index, all_segments, skipped, deck,
                   exported, slides, n, idx, rendered, clip_durs, used, clip_paths,
                   stitched, final_dur, warned, openHandles, audioDir, spoken,
                   clipDir, finalVideo, finalAudio, prev, fadeVars>>

\* slide i of the presentation PowerPoint opened: the deck build_ppt saved
\* between the intro and the outro slide, and nothing known beyond it
PresSlide(i) ==
    LET saved == <<IntroContent>> \o [k \in 1..Len(deck) |-> TopicContent(deck[k])]
                 \o <<OutroContent>>
    IN  IF i <= Len(saved) THEN saved[i] ELSE <<"unknown">>

\* SlideName with the topic number taken to be the slide number
SlideName_NoOffset(i, t) ==
    IF i = 1 THEN IntroSlide
    ELSE IF i = t THEN OutroSlide
    ELSE TopicSlide(i)

\* fname of slide i in a deck of t slides
SlideName(i, t) ==
    IF i = 1 THEN IntroSlide
    ELSE IF i = t THEN OutroSlide
    ELSE TopicSlide(i - 1)

\* slide.Export wrote dst
ExportSlide ==
    /\ pc = "export_loop"
    /\ exp_idx <= total
    /\ slideDir' = WriteFile(slideDir, SlideName(exp_idx, total), run)
    /\ shown' = WriteFile(shown, SlideName(exp_idx, total), PresSlide(exp_idx))
    /\ exported' = Append(exported, SlideName(exp_idx, total))
    /\ exp_idx' = exp_idx + 1
    /\ UNCHANGED <<run, pc, err, topicPos, topic_index, all_segments, skipped, deck,
                   total, slides, n, idx, rendered, clip_durs, used, clip_paths,
                   stitched, final_dur, warned, openHandles, audioDir, spoken,
                   clipDir, finalVideo, finalAudio, prev, fadeVars>>

\* ExportSlideMissing with the missing file logged and the slide skipped
ExportSlideMissing_Skipped ==
    /\ pc = "export_loop"
    /\ exp_idx <= total
    /\ err' = "export_missing"
    /\ exported' = Append(exported, SlideName(exp_idx, total))
    /\ exp_idx' = exp_idx + 1
    /\ UNCHANGED <<run, pc, topicPos, topic_index, all_segments, skipped, deck,
                   total, slides, n, idx, rendered, clip_durs, used, clip_paths,
                   stitched, final_dur, warned, openHandles, fileVars, contentVars,
                   prev, fadeVars>>

\* dst does not exist after slide.Export: RuntimeError
ExportSlideMissing ==
    /\ pc = "export_loop"
    /\ exp_idx <= total
    /\ Raise("export_missing")
    /\ UNCHANGED <<run, memVars, openHandles, fileVars, contentVars, prev,
                   fadeVars>>

\* the "topics" list of the returned mapping: range(1, total - 1)
TopicPaths(t) == [i \in 1..(t - 2) |-> TopicSlide(i)]

\* the loop is over: the mapping is built and returned to build_video
ExportReturn ==
    /\ pc = "export_loop"
    /\ exp_idx = total + 1
    /\ slides' = [intro |-> IntroSlide, topics |-> TopicPaths(total), outro |-> OutroSlide]
    /\ pc' = "pair"
    /\ UNCHANGED <<run, err, topicPos, topic_index, all_segments, skipped, deck,
                   total, exp_idx, exported, n, idx, rendered, clip_durs, used,
                   clip_paths, stitched, final_dur, warned, openHandles, fileVars,
                   contentVars, prev, fadeVars>>

----------------------------------------------------------------------------
(* build_video: pairing *)

\* n = min(len(topic_slides), len(segments))
PairCount(s, g) == Min(s, g)

\* the warning is logged when the counts differ
Mismatch(s, g) == s # g

\* n == 0: RuntimeError("No topic slides available to build video.")
PairNoTopics ==
    /\ pc = "pair"
    /\ PairCount(Len(slides.topics), Len(all_segments)) = 0
    /\ warned' = Mismatch(Len(slides.topics), Len(all_segments))
    /\ n' = 0
    /\ Raise("no_topic_slides")
    /\ UNCHANGED <<run, topicPos, topic_index, all_segments, skipped, deck, total,
                   exp_idx, exported, slides, idx, rendered, clip_durs, used,
                   clip_paths, stitched, final_dur, openHandles, fileVars,
                   contentVars, prev, fadeVars>>

\* n > 0: clip_paths = [], on to the intro clip
PairSlides ==
    /\ pc = "pair"
    /\ PairCount(Len(slides.topics), Len(all_segments)) > 0
    /\ warned' = Mismatch(Len(slides.topics), Len(all_segments))
    /\ n' = PairCount(Len(slides.topics), Len(all_segments))
    /\ clip_paths' = <<>>
    /\ pc' = "render_intro"
    /\ UNCHANGED <<run, err, topicPos, topic_index, all_segments, skipped, deck,
                   total, exp_idx, exported, slides, idx, rendered, clip_durs, used,
                   stitched, final_dur, openHandles, fileVars, contentVars, prev,
                   fadeVars>>

----------------------------------------------------------------------------
(* _image_with_audio_clip and _write_clip *)

\* the durations audio.duration can return
AudioDurations == {1000 * k + 250 : k \in {1, MaxSeconds}}

\* TotalDur without the tail pad
TotalDur_NoTail(p, d, t) == p + d

\* total_dur = pre_roll + audio.duration + tail_pad
TotalDur(p, d, t) == p + d + t

\* AudioFadeOut without the clamp to the tail window
AudioFadeOut_Unclamped(f, t) == f

\* the duration passed to afx.audio_fadeout; 0 when fade is 0 and no fade is applied
AudioFadeOut(f, t) == IF f > 0 THEN Min(f, Max(MinFadeOut, t)) ELSE 0

\* handles _image_with_audio_clip has opened when it or _write_clip stops at
\* stage: AudioFileClip first, ImageClip second, then write_videofile
Opened(clip, stage) ==
    IF stage = "audio" THEN {}
    ELSE IF stage = "image" THEN {<<clip, "audio">>}
    ELSE {<<clip, "audio">>, <<clip, "image">>}

\* handles released by _write_clip: clip.close() runs only after
\* write_videofile returned, and is taken to release both readers of the clip
Closed(clip, stage) ==
    IF stage = "done" THEN {<<clip, "audio">>, <<clip, "image">>} ELSE {}

\* AppendClip inserting at the front
AppendClip_Front(paths, path) == <<path>> \o paths

\* clip_paths.append(path)
AppendClip(paths, path) == Append(paths, path)

\* a clip rendered and written: the effects common to intro, topic and outro
RenderOk(clip) ==
    /\ fade' = FadeSeconds
    /\ tail_pad' = TailPadDefault
    /\ audio_fadeout' = AudioFadeOut(FadeSeconds, TailPadDefault)
    /\ pre_roll' = PreRollSeconds
    /\ \E d \in AudioDurations :
          /\ audio_duration' = d
          /\ total_dur' = TotalDur(PreRollSeconds, d, TailPadDefault)
          /\ clip_durs' = Append(clip_durs,
                                [audio |-> d,
                                 total |-> TotalDur(PreRollSeconds, d, TailPadDefault)])
    /\ openHandles' = (openHandles \cup Opened(clip, "done")) \ Closed(clip, "done")
    /\ clipDir' = WriteFile(clipDir, clip, run)
    /\ rendered' = Append(rendered, clip)
    /\ clip_paths' = AppendClip(clip_paths, clip)

\* the arguments of _image_with_audio_clip
Source(slide, audio) == [slide |-> slide, audio |-> audio]

\* the section build_video is at
Section ==
    IF pc = "render_intro" THEN IntroClip
    ELSE IF pc = "render_topics" THEN TopicClip(idx)
    ELSE OutroClip

RenderIntro ==
    /\ pc = "render_intro"
    /\ RenderOk(IntroClip)
    /\ used' = Append(used, Source(slides.intro, IntroAudio))
    /\ idx' = 1
    /\ pc' = "render_topics"
    /\ UNCHANGED <<run, err, topicPos, topic_index, all_segments, skipped, deck,
                   total, exp_idx, exported, slides, n, stitched, final_dur, warned,
                   slideDir, shown, audioDir, spoken, finalVideo, finalAudio, prev>>

RenderTopic ==
    /\ pc = "render_topics"
    /\ idx <= n
    /\ RenderOk(TopicClip(idx))
    /\ used' = Append(used, Source(slides.topics[idx], all_segments[idx].audio))
    /\ idx' = idx + 1
    /\ pc' = IF idx = n THEN "render_outro" ELSE "render_topics"
    /\ UNCHANGED <<run, err, topicPos, topic_index, all_segments, skipped, deck,
                   total, exp_idx, exported, slides, n, stitched, final_dur, warned,
                   slideDir, shown, audioDir, spoken, finalVideo, finalAudio, prev>>

RenderOutro ==
    /\ pc = "render_outro"
    /\ RenderOk(OutroClip)
    /\ used' = Append(used, Source(slides.outro, OutroAudio))
    /\ pc' = "concat"
    /\ UNCHANGED <<run, err, topicPos, topic_index, all_segments, skipped, deck,
                   total, exp_idx, exported, slides, n, idx, stitched, final_dur,
                   warned, slideDir, shown, audioDir, spoken, finalVideo,
                   finalAudio, prev>>

\* RenderFails with the exception logged and swallowed: on to the stitching
RenderFails_Swallowed ==
    /\ pc \in {"render_intro", "render_topics", "render_outro"}
    /\ err' = "render"
    /\ pc' = "concat"
    /\ UNCHANGED <<run, memVars, openHandles, fileVars, contentVars, prev,
                   fadeVars>>

\* AudioFileClip, ImageClip or write_videofile raises for the current section:
\* the exception leaves build_video (the topic loop logs it and re-raises)
RenderFails ==
    /\ pc \in {"render_intro", "render_topics", "render_outro"}
    /\ \E stage \in {"audio", "image", "write"} :
          openHandles' = (openHandles \cup Opened(Section, stage)) \ Closed(Section, stage)
    /\ Raise("render")
    /\ UNCHANGED <<run, memVars, fileVars, contentVars, prev, fadeVars>>

----------------------------------------------------------------------------
(* build_video: stitching *)

\* [VideoFileClip(p) for p in clip_paths]
ClipList(paths) == paths

\* duration of the clip file at path, as written in this run
ClipDuration(path) ==
    clip_durs[CHOOSE i \in 1..Len(rendered) : rendered[i] = path].total

\* duration of the concatenation: the clips follow one another, hard cut
RECURSIVE ConcatDuration(_)
ConcatDuration(clips) ==
    IF clips = <<>> THEN 0
    ELSE ClipDuration(Head(clips)) + ConcatDuration(Tail(clips))

\* concatenate_videoclips and write_videofile(VIDEO_FILE)
Concatenate ==
    /\ pc = "concat"
    /\ stitched' = ClipList(clip_paths)
    /\ final_dur' = ConcatDuration(ClipList(clip_paths))
    /\ finalVideo' = run
    /\ pc' = "extract"
    /\ UNCHANGED <<run, err, topicPos, topic_index, all_segments, skipped, deck,
                   total, exp_idx, exported, slides, n, idx, rendered, clip_durs,
                   used, clip_paths, warned, openHandles, slideDir, shown, audioDir,
                   spoken, clipDir, finalAudio, prev, fadeVars>>

ConcatenateFails ==
    /\ pc = "concat"
    /\ Raise("concatenate")
    /\ UNCHANGED <<run, memVars, openHandles, fileVars, contentVars, prev,
                   fadeVars>>

\* write_audiofile(FINAL_AUDIO), stitched.close(), return to main
ExtractAudio ==
    /\ pc = "extract"
    /\ finalAudio' = run
    /\ pc' = "done"
    /\ UNCHANGED <<run, err, memVars, openHandles, slideDir, shown, audioDir,
                   spoken, clipDir, finalVideo, prev, fadeVars>>

ExtractAudioFails ==
    /\ pc = "extract"
    /\ Raise("extract_audio")
    /\ UNCHANGED <<run, memVars, openHandles, fileVars, contentVars, prev,
                   fadeVars>>

----------------------------------------------------------------------------
(* The script is started again on the same output directory *)

StartRun ==
    /\ pc \in {"done", "failed"}
    /\ run < MaxRuns
    /\ run' = run + 1
    /\ prev' = [pc |-> pc, segments |-> Len(all_segments)]
    /\ pc' = "collect"
    /\ err' = "none"
    /\ topicPos' = 1
    /\ topic_index' = 1
    /\ all_segments' = <<>>
    /\ skipped' = {}
    /\ deck' = <<>>
    /\ total' = 0
    /\ exp_idx' = 0
    /\ exported' = <<>>
    /\ slides' = NoSlides
    /\ n' = 0
    /\ idx' = 0
    /\ rendered' = <<>>
    /\ clip_durs' = <<>>
    /\ used' = <<>>
    /\ clip_paths' = <<>>
    /\ stitched' = <<>>
    /\ final_dur' = 0
    /\ warned' = FALSE
    /\ openHandles' = {}
    /\ spoken' = EmptyDir
    /\ shown' = EmptyDir
    /\ fade' = 0
    /\ tail_pad' = 0
    /\ audio_fadeout' = -1
    /\ pre_roll' = 0
    /\ audio_duration' = 0
    /\ total_dur' = 0
    /\ UNCHANGED fileVars

Next ==
    \/ TopicSearchRaises
    \/ TopicNoSummaries
    \/ TopicAIFails
    \/ TopicAudioRaises
    \/ TopicAppended
    \/ NarrationSaved
    \/ NarrationRaises
    \/ build_ppt
    \/ ExportTooFewSlides
    \/ ExportOpen
    \/ ExportSlide
    \/ ExportSlideMissing
    \/ ExportReturn
    \/ PairNoTopics
    \/ PairSlides
    \/ RenderIntro
    \/ RenderTopic
    \/ RenderOutro
    \/ RenderFails
    \/ Concatenate
    \/ ConcatenateFails
    \/ ExtractAudio
    \/ ExtractAudioFails
    \/ StartRun

Spec == Init /\ [][Next]_vars

----------------------------------------------------------------------------
(* _image_with_audio_clip as a function of its fade and tail_pad arguments *)

FadeValues == {50 * k : k \in 0..MaxStep}

InitFade ==
    /\ run = 1
    /\ pc = "clip_call"
    /\ err = "none"
    /\ FreshRun
    /\ slideDir = EmptyDir
    /\ audioDir = EmptyDir
    /\ clipDir = EmptyDir
    /\ finalVideo = 0
    /\ finalAudio = 0
    /\ prev = [pc |-> "none", segments |-> 0]
    /\ fade \in FadeValues
    /\ tail_pad \in FadeValues
    /\ audio_fadeout = -1
    /\ pre_roll = PreRollSeconds
    /\ audio_duration \in AudioDurations
    /\ total_dur = 0

ImageWithAudioClip ==
    /\ pc = "clip_call"
    /\ audio_fadeout' = AudioFadeOut(fade, tail_pad)
    /\ total_dur' = TotalDur(pre_roll, audio_duration, tail_pad)
    /\ pc' = "clip_built"
    /\ UNCHANGED <<run, err, memVars, openHandles, fileVars, contentVars, prev,
                   fade, tail_pad, pre_roll, audio_duration>>

NextFade == ImageWithAudioClip

SpecFade == InitFade /\ [][NextFade]_vars

----------------------------------------------------------------------------
(* Helpers of the properties *)

\* two decimal digits of k < 100, most significant first
TwoDigits(k) == <<k \div 10, k % 10>>

Range(seq) == {seq[i] : i \in 1..Len(seq)}

WrittenThisRun(dir) == {f \in DOMAIN dir : dir[f] = run}

\* numbered files of dir that an earlier run wrote and this run did not
StaleNumbered(dir) == {f \in DOMAIN dir : f[2] # <<>> /\ dir[f] < run}

\* the clips of a complete build in section order
SectionOrder(k) ==
    <<IntroClip>> \o [i \in 1..k |-> <<"01_topic.mp4", TwoDigits(i)>>] \o <<OutroClip>>

\* export_slides_to_images returned and build_video has computed n
PastPairing == slides # NoSlides /\ pc # "pair"

----------------------------------------------------------------------------
(* C1: a run whose segment list is empty still renders the intro and the   *)
(* outro clip, concatenates them, extracts the audio and finishes without  *)
(* an error (no other step failing).                                       *)
C1_ZeroTopicsStillRender ==
    ( /\ all_segments = <<>>
      /\ total = 2
      /\ slides # NoSlides
      /\ pc \in {"done", "failed"}
      /\ err \notin {"render", "concatenate", "extract_audio"} )
    => ( /\ pc = "done"
         /\ rendered = <<IntroClip, OutroClip>>
         /\ stitched = <<IntroClip, OutroClip>>
         /\ finalVideo = run
         /\ finalAudio = run )

(* C2: a failure of an upstream step of one topic never aborts the run:    *)
(* the run is never ended by search_snippets or save_audio raising in the  *)
(* topic loop.                                                             *)
C2_TopicFailureNeverAborts ==
    ~(pc = "failed" /\ err \in {"search_snippets", "save_audio"})

(* C3: when the topic slide count s and the segment count g differ,        *)
(* build_video logs the warning, raises no error for it and a completed    *)
(* rendering holds exactly min(s, g) topic clips.                          *)
C3_MismatchPairsByMin ==
    (PastPairing /\ Len(slides.topics) # Len(all_segments))
    => ( /\ warned
         /\ err # "no_topic_slides"
         /\ (pc \in {"concat", "extract", "done"}
             => Cardinality({i \in 1..Len(rendered) : rendered[i][1] = "01_topic.mp4"})
                = Min(Len(slides.topics), Len(all_segments))) )

(* C4: for a deck of T = N+2 slides whose exports all succeed, exactly     *)
(* N+2 distinct files are written: slide 1 as intro_slide.jpg, slide T as  *)
(* outro_slide.jpg, interior slide i as topic_<i-1>_slide.jpg; the         *)
(* returned topics list has length N and lists the topic files 1..N in     *)
(* ascending order.                                                        *)
C4_ExportNaming ==
    (slides # NoSlides)
    => ( /\ total >= 2
         /\ Len(exported) = total
         /\ exported[1] = <<"intro_slide.jpg", <<>>>>
         /\ exported[total] = <<"outro_slide.jpg", <<>>>>
         /\ \A i \in 2..(total - 1) :
               exported[i] = <<"topic_slide.jpg", TwoDigits(i - 1)>>
         /\ WrittenThisRun(slideDir) = Range(exported)
         /\ Cardinality(WrittenThisRun(slideDir)) = total
         /\ slides.intro = exported[1]
         /\ slides.outro = exported[total]
         /\ Len(slides.topics) = total - 2
         /\ \A i \in 1..(total - 2) :
               /\ slides.topics[i] = <<"topic_slide.jpg", TwoDigits(i)>>
               /\ slides.topics[i] = exported[i + 1] )

C4_Witness ==
    /\ slides # NoSlides
    /\ total = NumTopics + 2
    /\ Len(slides.topics) = NumTopics

(* C5: when the deck has fewer than 2 slides or a slide's output file is   *)
(* missing after its export, export_slides_to_images raises, no mapping    *)
(* is returned, and the run writes no clip file, no final video and no     *)
(* final audio.                                                            *)
C5_ExportFailureIsFatal ==
    /\ ~(total < 2 /\ (pc \in {"export_loop", "pair"} \/ PastPairing))
    /\ (err \in {"too_few_slides", "export_missing"})
       => ( /\ pc = "failed"
            /\ slides = NoSlides
            /\ rendered = <<>>
            /\ clip_paths = <<>>
            /\ WrittenThisRun(clipDir) = {}
            /\ finalVideo # run
            /\ finalAudio # run )

C5_Witness ==
    /\ err = "export_missing"
    /\ Len(exported) >= 2
    /\ run = 2
    /\ finalVideo = 1

(* C6: a failure rendering or writing the clip of any section ends the     *)
(* run: the error leaves build_video and main, the clips rendered so far   *)
(* are a proper prefix of the section order, nothing is concatenated, no   *)
(* final video or audio is written, and nothing is rendered afterwards.    *)
C6_RenderFailureIsFatal ==
    /\ [](err = "render"
          => ( /\ pc = "failed"
               /\ stitched = <<>>
               /\ finalVideo # run
               /\ finalAudio # run
               /\ Len(rendered) < n + 2
               /\ rendered = SubSeq(SectionOrder(n), 1, Len(rendered)) ))
    /\ [][err = "render"
          => ( /\ UNCHANGED <<clipDir, finalVideo, finalAudio>>
               /\ (run' = run => rendered' = rendered) )]_vars

C6_Witness ==
    /\ err = "render"
    /\ pc = "failed"
    /\ Len(rendered) >= 2
    /\ Len(rendered) < n + 1

(* C7: in a run that reaches concatenation, the list handed to             *)
(* concatenate_videoclips is the intro clip, the topic clips 1..n in       *)
(* ascending order, the outro clip: the clips in the order they were       *)
(* rendered, each exactly once.                                            *)
C7_ConcatOrder ==
    (stitched # <<>>)
    => ( /\ stitched = SectionOrder(n)
         /\ stitched = rendered
         /\ Cardinality(Range(stitched)) = Len(stitched)
         /\ Len(stitched) = n + 2 )

C7_Witness ==
    /\ pc = "done"
    /\ n >= 3
    /\ stitched # <<>>

(* C8: after two completed runs on the same output directory, the second   *)
(* with fewer segments than the first, no numbered slide image, topic      *)
(* audio file or topic clip written only by the first run remains.         *)
C8_NoStaleNumberedFiles ==
    (pc = "done" /\ prev.pc = "done" /\ Len(all_segments) < prev.segments)
    => ( /\ StaleNumbered(slideDir) = {}
         /\ StaleNumbered(audioDir) = {}
         /\ StaleNumbered(clipDir) = {} )

(* C9: every media handle opened while a clip is rendered and written is   *)
(* closed when the rendering call has returned to build_video, whether     *)
(* write_videofile succeeded or raised.                                    *)
C9_HandlesClosed == openHandles = {}

(* C10, as stated: for fade > 0 the audio fade-out duration equals         *)
(* min(fade, max(0.1, tailPad)) and never exceeds tailPad.                 *)
C10_FadeOutWithinTail ==
    (pc = "clip_built" /\ fade > 0)
    => ( /\ audio_fadeout = Min(fade, Max(100, tail_pad))
         /\ audio_fadeout <= tail_pad )

(* C10, amended: for fade > 0 the audio fade-out duration equals           *)
(* min(fade, max(0.1, tailPad)); it never exceeds fade nor                 *)
(* max(0.1, tailPad), and it stays within tailPad whenever tailPad >= 0.1  *)
(* or fade <= tailPad.                                                     *)
C10_FadeOutClamped ==
    (pc = "clip_built" /\ fade > 0)
    => ( /\ audio_fadeout = Min(fade, Max(100, tail_pad))
         /\ audio_fadeout <= fade
         /\ audio_fadeout <= Max(100, tail_pad)
         /\ (tail_pad >= 100 \/ fade <= tail_pad) => audio_fadeout <= tail_pad )

C10_Witness ==
    /\ pc = "clip_built"
    /\ tail_pad >= 100
    /\ fade > tail_pad
    /\ audio_fadeout = tail_pad

RECURSIVE SumAudio(_)
SumAudio(durs) == IF durs = <<>> THEN 0 ELSE Head(durs).audio + SumAudio(Tail(durs))

C12_PairingByPosition ==
    /\ Len(used) = Len(rendered)
    /\ \A k \in 1..n :
          (k + 1 <= Len(used))
          => ( /\ rendered[k + 1] = <<"01_topic.mp4", TwoDigits(k)>>
               /\ used[k + 1].slide = <<"topic_slide.jpg", TwoDigits(k)>>
               /\ used[k + 1].audio = <<"topic_audio.wav", TwoDigits(k)>>
               /\ used[k + 1].slide \in DOMAIN shown
               /\ used[k + 1].audio \in DOMAIN spoken
               /\ shown[used[k + 1].slide] = <<"topic", all_segments[k].topic>>
               /\ spoken[used[k + 1].audio] = <<"topic", all_segments[k].topic>> )
    /\ \A k \in 1..Len(all_segments) :
          all_segments[k].audio = <<"topic_audio.wav", TwoDigits(k)>>
    /\ \A j, k \in 1..Len(all_segments) :
          j < k => all_segments[j].topic < all_segments[k].topic
    /\ {all_segments[k].topic : k \in 1..Len(all_segments)}
       = (1..(topicPos - 1)) \ skipped

C12_Witness ==
    /\ pc = "done"
    /\ n = 2
    /\ skipped = {1, 3}
    /\ Len(used) = 4
    /\ shown[used[3].slide] = <<"topic", 4>>
    /\ spoken[used[3].audio] = <<"topic", 4>>

====
